---- MODULE Spec2Model ----
(***************************************************************************)
(* AgentGuard: the scanner core (agentguard/scanner/core.py) and the scan  *)
(* command of the CLI (agentguard/cli/main.py).                            *)
(*                                                                         *)
(* Text is a sequence of one-character strings.  A compiled pattern is a   *)
(* non-empty sequence of character classes (sets of characters) searched   *)
(* as an unanchored, case-insensitive substring: the fragment of the       *)
(* regular-expression language the model keeps.  Finding fields that are   *)
(* plain copies of rule constants (rule_name, message, remediation,        *)
(* references) are left out of the Finding record.                         *)
(***************************************************************************)
EXTENDS Integers, Sequences, FiniteSets, TLC

\* ------------------------------------------------------------------ bounds
MaxLen == 5        \* longest content checked by the pure-function specification
MaxRules == 3      \* longest explicit rule list handed to Scanner(rules)
MaxFiles == 2      \* most filesystem entries under the scanned directory
MaxText == 3       \* longest of the enumerated file contents scan_file is run on
MaxClock == 1      \* the wall clock stops advancing here

\* -------------------------------------------------------------- characters
NL == "\n"
\* The characters the contents of the pure-function specification are made of.
Chars == {"a", "A", "b", NL}
Whitespace == {" ", NL}

\* re.IGNORECASE: both sides are case-folded before they are compared.
Lower(c) == IF c = "A" THEN "a" ELSE c

\* One character class of a compiled pattern against one character.
ClassMatches(cls, c) == \E x \in cls : Lower(x) = Lower(c)

\* The pattern matches the line at 0-based offset pos.
MatchAt(pat, line, pos) ==
    /\ pos + Len(pat) <= Len(line)
    /\ \A k \in 1..Len(pat) : ClassMatches(pat[k], line[pos + k])

\* A mutant of finditer: re.search, only the first occurrence of a line.
RECURSIVE finditer_first(_, _, _)
finditer_first(pat, line, pos) ==
    IF pos + Len(pat) > Len(line) THEN <<>>
    ELSE IF MatchAt(pat, line, pos) THEN <<pos>>
    ELSE finditer_first(pat, line, pos + 1)

\* pattern.finditer(line): the 0-based starts of the leftmost non-overlapping
\* matches, scanning from pos; after a match the scan resumes at its end.
RECURSIVE finditer(_, _, _)
finditer(pat, line, pos) ==
    IF pos + Len(pat) > Len(line) THEN <<>>
    ELSE IF MatchAt(pat, line, pos)
         THEN <<pos>> \o finditer(pat, line, pos + Len(pat))
         ELSE finditer(pat, line, pos + 1)

\* A mutant of split: the content is not split, it is one line.
split_none(s) == <<s>>

\* content.split("\n"): always at least one line, newlines removed.
RECURSIVE split(_)
split(s) ==
    IF \A i \in 1..Len(s) : s[i] # NL THEN <<s>>
    ELSE LET i == CHOOSE j \in 1..Len(s) :
                      s[j] = NL /\ \A k \in 1..(j - 1) : s[k] # NL
         IN <<SubSeq(s, 1, i - 1)>> \o split(SubSeq(s, i + 1, Len(s)))

\* line.strip()
RECURSIVE strip(_)
strip(s) ==
    IF s = <<>> THEN s
    ELSE IF Head(s) \in Whitespace THEN strip(Tail(s))
    ELSE IF s[Len(s)] \in Whitespace THEN strip(SubSeq(s, 1, Len(s) - 1))
    ELSE s

SnippetMax == 100
\* line.strip()[:100]
snippet(line) ==
    LET t == strip(line) IN
    IF Len(t) > SnippetMax THEN SubSeq(t, 1, SnippetMax) ELSE t

\* ------------------------------------------------------------------- rules
severity_order == <<"critical", "high", "medium", "low", "info">>
Severities == {severity_order[i] : i \in 1..Len(severity_order)}

\* A rule: kind "pattern" is PatternRule; kind "base" is a Rule whose check is
\* not overridden.  template_ok is whether message_template.format(category=..)
\* succeeds (a template naming another field raises KeyError).
MkRule(kind, id, cat, sev, pat, ok) ==
    [kind |-> kind, rule_id |-> id, category |-> cat, severity |-> sev,
     pattern |-> pat, template_ok |-> ok]

\* The registry.  Identifiers, categories and severities are the source's; each
\* regular expression is represented by a short token over the model's alphabet.
RULES == <<
    MkRule("pattern", "AG-001", "prompt_injection", "critical", <<{"a"}, {"b"}>>, TRUE),
    MkRule("pattern", "AG-002", "secrets", "critical", <<{"b"}, {"b"}>>, TRUE),
    MkRule("pattern", "AG-003", "permissions", "high", <<{"a"}, {"a"}>>, TRUE),
    MkRule("pattern", "AG-004", "file_access", "high", <<{"b"}, {" "}, {"a"}>>, TRUE),
    MkRule("pattern", "AG-005", "network", "medium", <<{"a"}>>, TRUE) >>

\* Rules a caller of Scanner(rules) may add to a list of its own: a Rule whose
\* check is not overridden, and a PatternRule whose template names a field
\* that format() is not given.
BaseRule == MkRule("base", "X-BASE", "memory", "low", <<{"a"}>>, TRUE)
BadTemplateRule == MkRule("pattern", "X-TMPL", "memory", "info", <<{"b"}>>, FALSE)

\* Scanner.__init__: None and the empty list both fall back to RULES.
ScannerInit(arg) == IF arg = <<>> THEN RULES ELSE arg

\* A mutant of MkFinding: the severity is set by the engine, not copied.
MkFinding_override(rule, file_path, line_num, line, start) ==
    [rule_id |-> rule.rule_id, category |-> rule.category,
     severity |-> "low", file_path |-> file_path,
     line_number |-> line_num, column |-> start + 1, snippet |-> snippet(line)]

\* Finding(...) as built by PatternRule.check for one match.
MkFinding(rule, file_path, line_num, line, start) ==
    [rule_id |-> rule.rule_id, category |-> rule.category,
     severity |-> rule.severity, file_path |-> file_path,
     line_number |-> line_num, column |-> start + 1, snippet |-> snippet(line)]

\* The findings of one line, in match order.
LineFindings(rule, file_path, line_num, line) ==
    LET starts == finditer(rule.pattern, line, 0) IN
    [k \in 1..Len(starts) |-> MkFinding(rule, file_path, line_num, line, starts[k])]

RECURSIVE ConcatLines(_, _, _, _)
ConcatLines(rule, file_path, lines, n) ==
    IF n > Len(lines) THEN <<>>
    ELSE LineFindings(rule, file_path, n, lines[n])
           \o ConcatLines(rule, file_path, lines, n + 1)

\* rule.check(content, file_path): what the call returns, or that it raised.
\* Rule.check raises NotImplementedError; PatternRule.check raises at its first
\* match when the message template cannot be formatted.  The list built so far
\* is local to the call and is lost with the exception.
check(rule, text, file_path) ==
    IF rule.kind = "base" THEN [raised |-> TRUE, findings |-> <<>>]
    ELSE LET found == ConcatLines(rule, file_path, split(text), 1) IN
         IF found # <<>> /\ ~rule.template_ok
         THEN [raised |-> TRUE, findings |-> <<>>]
         ELSE [raised |-> FALSE, findings |-> found]


\* -------------------------------------------------------------- filesystem
\* A path is an integer: -1 a path that does not exist, 0 the directory the
\* scan is rooted at, i >= 1 the i-th entry below it in rglob's traversal order.
Suffixes == {".yaml", ".yml", ".json", ".py", ".txt"}
Eligible == {".yaml", ".yml", ".json", ".py"}

File(suffix, err, text) ==
    [suffix |-> suffix, is_file |-> TRUE, err |-> err, content |-> text]
Dir(suffix) ==
    [suffix |-> suffix, is_file |-> FALSE, err |-> "none", content |-> <<>>]

FileContents == { <<>>, <<"a", "b">>, <<"a", NL, "A", "a">>, <<"b", "b", " ", "a">> }

Entries ==
    {File(s, "none", <<"a", "b">>) : s \in Suffixes}
    \cup {File(".yaml", "none", c) : c \in FileContents}
    \cup {File(".py", "UnicodeDecodeError", <<>>),
          File(".json", "PermissionError", <<>>),
          Dir(".yml")}

SeqsUpTo(S, n) == UNION {[1..k -> S] : k \in 0..n}

\* The files a single scan_file call is also run on: every text of up to
\* MaxText characters.
TextEntries == {File(".yaml", "none", c) : c \in SeqsUpTo({"a", "b", NL}, MaxText)}

RuleCatalog == {RULES[1], RULES[3], RULES[5], BaseRule, BadTemplateRule}
\* Rule lists with the identifiers unique, as the registry's are.
RuleLists ==
    {rs \in SeqsUpTo(RuleCatalog, MaxRules) :
        \A i, j \in 1..Len(rs) : i # j => rs[i].rule_id # rs[j].rule_id}

VARIABLES
    fs,          \* the entries below the root directory, in traversal order
    top,         \* the entry point of the run: "check", "api" or "cli"
    target,      \* the path argument
    rules,       \* Scanner.rules
    pc,          \* the position of control
    clock,       \* wall clock, in milliseconds
    caller,      \* who called scan_file: "api", "cli" or "dir"
    file_path,   \* scan_file: its argument
    start_time,  \* scan_file: local
    content,     \* scan_file: local
    findings,    \* scan_file: local
    ri,          \* scan_file: index of the rule the loop is at
    duration_ms, \* scan_file: local
    read_paths,  \* the paths read_text was called on
    listing,     \* scan_directory: what rglob yields
    di,          \* scan_directory: index into listing
    results,     \* scan_directory's and the CLI's list of ScanResults
    ret,         \* what the API call returned: <<>> or <<value>>
    exc,         \* the exception that left the entry point, or "none"
    log,         \* the diagnostics printed
    severity,    \* the CLI's --severity option, "none" when absent
    scanned,     \* history: the results as the scan returned them
    exit_code,   \* the process's exit status, -1 while it runs
    chk          \* the pure-function specification's input and output

vars == <<fs, top, target, rules, pc, clock, caller, file_path, start_time,
          content, findings, ri, duration_ms, read_paths, listing, di, results,
          ret, exc, log, severity, scanned, exit_code, chk>>

\* What the filesystem holds at path p.
OnDisk(p) == p = 0 \/ p \in 1..Len(fs)
RegularFile(p) == p \in 1..Len(fs) /\ fs[p].is_file

\* A mutant of exists: the existence check always passes.
exists_always(p) == TRUE

\* path.exists()
exists(p) == OnDisk(p)

\* path.is_file()
is_file(p) == RegularFile(p)

\* path.suffix
suffix(p) == IF p \in 1..Len(fs) THEN fs[p].suffix ELSE ""

\* path.read_text(encoding="utf-8"): the error it raises, "none" when it
\* returns the text.
read_error(p) ==
    IF ~OnDisk(p) THEN "FileNotFoundError"
    ELSE IF ~RegularFile(p) THEN "IsADirectoryError"
    ELSE fs[p].err

\* path.rglob("*")
rglob(p) == IF p = 0 THEN [i \in 1..Len(fs) |-> i] ELSE <<>>

NoCheck == [rule |-> BaseRule, content |-> <<>>, out |-> <<>>]

InitCommon ==
    /\ pc = "start"
    /\ clock = 0
    /\ caller = "none"
    /\ file_path = -1
    /\ start_time = 0
    /\ content = <<>>
    /\ findings = <<>>
    /\ ri = 0
    /\ duration_ms = 0
    /\ read_paths = {}
    /\ listing = <<>>
    /\ di = 0
    /\ results = <<>>
    /\ ret = <<>>
    /\ exc = "none"
    /\ log = <<>>
    /\ severity = "none"
    /\ scanned = <<>>
    /\ exit_code = -1

\* ---------------------------------------------------------------- scan_file
\* A mutant of DirCatches: scan_directory catches FileNotFoundError only.
DirCatches_notfound(e) == e = "FileNotFoundError"

\* scan_directory's handler, except Exception: every error of scan_file.
DirCatches(e) == TRUE

Diag(kind, id, path, e) == [kind |-> kind, rule_id |-> id, path |-> path, error |-> e]

\* An exception e leaves scan_file: scan_directory prints it and goes on to the
\* next entry; the API caller receives it; the CLI does not catch it and the
\* interpreter ends the process with status 1.
Raise(e) ==
    IF caller = "dir" /\ DirCatches(e)
    THEN /\ pc' = "sd_loop"
         /\ di' = di + 1
         /\ log' = Append(log, Diag("file", "", file_path, e))
         /\ UNCHANGED <<exc, exit_code>>
    ELSE /\ pc' = "done"
         /\ exc' = e
         /\ exit_code' = IF top = "cli" THEN 1 ELSE exit_code
         /\ UNCHANGED <<di, log>>

\* Lines 238-242: the clock is read, then the path is tested.
ScanFileBegin ==
    /\ pc = "sf_begin"
    /\ start_time' = clock
    /\ IF ~exists(file_path)
       THEN Raise("FileNotFoundError")
       ELSE /\ pc' = "sf_read"
            /\ UNCHANGED <<di, log, exc, exit_code>>
    /\ UNCHANGED <<fs, top, target, rules, clock, caller, file_path, content,
                   findings, ri, duration_ms, read_paths, listing, results, ret,
                   severity, scanned, chk>>

\* Lines 244-245: the whole file is read and decoded.
ScanFileRead ==
    /\ pc = "sf_read"
    /\ read_paths' = read_paths \cup {file_path}
    /\ IF read_error(file_path) # "none"
       THEN /\ Raise(read_error(file_path))
            /\ UNCHANGED <<content, findings, ri>>
       ELSE /\ content' = fs[file_path].content
            /\ findings' = <<>>
            /\ ri' = 1
            /\ pc' = "sf_rules"
            /\ UNCHANGED <<di, log, exc, exit_code>>
    /\ UNCHANGED <<fs, top, target, rules, clock, caller, file_path, start_time,
                   duration_ms, listing, results, ret, severity, scanned, chk>>

\* A mutant of RunRule: a raising rule also discards what earlier rules found.
RunRule_reset(acc, rule, text, path) ==
    LET out == check(rule, text, path) IN
    IF out.raised THEN <<>> ELSE acc \o out.findings

\* A mutant of RunRule: a rule's findings are put in front of the earlier ones.
RunRule_prepend(acc, rule, text, path) ==
    LET out == check(rule, text, path) IN
    IF out.raised THEN acc ELSE out.findings \o acc

\* Lines 248-252, the findings after one pass of the loop body: extended by
\* what check returned, untouched when check raised.
RunRule(acc, rule, text, path) ==
    LET out == check(rule, text, path) IN
    IF out.raised THEN acc ELSE acc \o out.findings

\* Lines 247-252: one pass of the loop over self.rules.
ScanFileRule ==
    /\ pc = "sf_rules"
    /\ ri <= Len(rules)
    /\ findings' = RunRule(findings, rules[ri], content, file_path)
    /\ log' = IF check(rules[ri], content, file_path).raised
              THEN Append(log, Diag("rule", rules[ri].rule_id, file_path, "Exception"))
              ELSE log
    /\ ri' = ri + 1
    /\ UNCHANGED <<fs, top, target, rules, pc, clock, caller, file_path,
                   start_time, content, duration_ms, read_paths, listing, di,
                   results, ret, exc, severity, scanned, exit_code, chk>>

\* Line 254: the clock is read again when the loop has ended.
ScanFileDuration ==
    /\ pc = "sf_rules"
    /\ ri > Len(rules)
    /\ duration_ms' = clock - start_time
    /\ pc' = "sf_return"
    /\ UNCHANGED <<fs, top, target, rules, clock, caller, file_path, start_time,
                   content, findings, ri, read_paths, listing, di, results, ret,
                   exc, log, severity, scanned, exit_code, chk>>

\* The longest findings list among the results.
MaxFindings(rs) ==
    IF rs = <<>> THEN 0
    ELSE LET n == CHOOSE m \in {Len(rs[i].findings) : i \in 1..Len(rs)} :
                      \A i \in 1..Len(rs) : Len(rs[i].findings) <= m
         IN n

\* ScanResult(...) of lines 256-261; datetime.utcnow() is read here.
MkResult(path, found, now, dur) ==
    [file_path |-> path, findings |-> found, scanned_at |-> now, duration_ms |-> dur]

\* Lines 256-261: the result is built and returned to the caller: appended by
\* scan_directory (line 272), wrapped in a list by the CLI (line 46).
ScanFileReturn ==
    /\ pc = "sf_return"
    /\ LET r == MkResult(file_path, findings, clock, duration_ms) IN
       CASE caller = "dir" ->
              /\ results' = Append(results, r)
              /\ di' = di + 1
              /\ pc' = "sd_loop"
              /\ UNCHANGED ret
         [] caller = "cli" ->
              /\ results' = <<r>>
              /\ pc' = "cli_filter"
              /\ UNCHANGED <<di, ret>>
         [] OTHER ->
              /\ ret' = <<r>>
              /\ pc' = "done"
              /\ UNCHANGED <<di, results>>
    /\ UNCHANGED <<fs, top, target, rules, clock, caller, file_path, start_time,
                   content, findings, ri, duration_ms, read_paths, listing, exc,
                   log, severity, scanned, exit_code, chk>>

\* Time passes while a scan runs.
Tick ==
    /\ pc \in {"sf_begin", "sf_read", "sf_rules", "sf_return", "sd_loop"}
    /\ clock < MaxClock
    /\ clock' = clock + 1
    /\ UNCHANGED <<fs, top, target, rules, pc, caller, file_path, start_time,
                   content, findings, ri, duration_ms, read_paths, listing, di,
                   results, ret, exc, log, severity, scanned, exit_code, chk>>

\* A caller of the library: Scanner(rules).scan_file(target).
API_ScanFile ==
    /\ pc = "start"
    /\ top = "api"
    /\ caller' = "api"
    /\ file_path' = target
    /\ pc' = "sf_begin"
    /\ UNCHANGED <<fs, top, target, rules, clock, start_time, content, findings,
                   ri, duration_ms, read_paths, listing, di, results, ret, exc,
                   log, severity, scanned, exit_code, chk>>

InitFile ==
    /\ InitCommon
    /\ top = "api"
    /\ fs \in {<<e>> : e \in Entries \cup TextEntries}
    /\ target \in {-1, 0, 1}
    /\ rules \in {ScannerInit(arg) : arg \in RuleLists}
    /\ chk = NoCheck

NextFile ==
    \/ API_ScanFile
    \/ ScanFileBegin
    \/ ScanFileRead
    \/ ScanFileRule
    \/ ScanFileDuration
    \/ ScanFileReturn
    \/ Tick

\* One call of Scanner(rules).scan_file(target).
SpecFile == InitFile /\ [][NextFile]_vars

\* ----------------------------------------------------------- scan_directory
\* Line 269: the entries scan_directory hands to scan_file.
eligible(p) == is_file(p) /\ suffix(p) \in Eligible

\* Lines 265-268: the result list is created and the traversal begins.
ScanDirBegin ==
    /\ pc = "sd_begin"
    /\ results' = <<>>
    /\ listing' = rglob(target)
    /\ di' = 1
    /\ pc' = "sd_loop"
    /\ UNCHANGED <<fs, top, target, rules, clock, caller, file_path, start_time,
                   content, findings, ri, duration_ms, read_paths, ret, exc, log,
                   severity, scanned, exit_code, chk>>

\* Lines 268-271: the next entry; an eligible one is handed to scan_file.
ScanDirNext ==
    /\ pc = "sd_loop"
    /\ di <= Len(listing)
    /\ IF eligible(listing[di])
       THEN /\ caller' = "dir"
            /\ file_path' = listing[di]
            /\ pc' = "sf_begin"
            /\ UNCHANGED di
       ELSE /\ di' = di + 1
            /\ UNCHANGED <<caller, file_path, pc>>
    /\ UNCHANGED <<fs, top, target, rules, clock, start_time, content, findings,
                   ri, duration_ms, read_paths, listing, results, ret, exc, log,
                   severity, scanned, exit_code, chk>>

\* Line 276: the traversal has ended, the list goes back to the CLI (line 48).
ScanDirReturn ==
    /\ pc = "sd_loop"
    /\ di > Len(listing)
    /\ pc' = "cli_filter"
    /\ UNCHANGED <<fs, top, target, rules, clock, caller, file_path, start_time,
                   content, findings, ri, duration_ms, read_paths, listing, di,
                   results, ret, exc, log, severity, scanned, exit_code, chk>>

\* ------------------------------------------------------------- the CLI: scan
\* Lines 19 and 40-48: click refuses a path that does not exist (status 2);
\* otherwise Scanner() is built and a file is scanned by scan_file, anything
\* else by scan_directory.
CLI_Start ==
    /\ pc = "start"
    /\ top = "cli"
    /\ IF ~OnDisk(target)
       THEN /\ exit_code' = 2
            /\ pc' = "done"
            /\ UNCHANGED <<rules, caller, file_path>>
       ELSE /\ rules' = ScannerInit(<<>>)
            /\ IF is_file(target)
               THEN /\ caller' = "cli"
                    /\ file_path' = target
                    /\ pc' = "sf_begin"
               ELSE /\ pc' = "sd_begin"
                    /\ UNCHANGED <<caller, file_path>>
            /\ UNCHANGED exit_code
    /\ UNCHANGED <<fs, top, target, clock, start_time, content, findings, ri,
                   duration_ms, read_paths, listing, di, results, ret, exc, log,
                   severity, scanned, chk>>

\* Line 54: severity_order.index(...), counted from 0.
min_index(sev) == (CHOOSE i \in 1..Len(severity_order) : severity_order[i] = sev) - 1

\* A mutant of allowed: the slice stops one short, severity_order[:min_index].
allowed_exclusive(sev) == SubSeq(severity_order, 1, min_index(sev))

\* Line 55: severity_order[: min_index + 1]
allowed(sev) == SubSeq(severity_order, 1, min_index(sev) + 1)

\* Line 58: the findings whose severity is one of the allowed.
filter_findings(found, sev) ==
    LET keep(f) == \E i \in 1..Len(allowed(sev)) : allowed(sev)[i] = f.severity
    IN SelectSeq(found, keep)

\* Lines 50-58: with --severity given, every result's findings are replaced by
\* the filtered list.  scanned keeps the list as the scan returned it.
CLI_Filter ==
    /\ pc = "cli_filter"
    /\ \E sev \in Severities \cup {"none"} :
          /\ severity' = sev
          /\ results' =
                IF sev = "none" THEN results
                ELSE [i \in 1..Len(results) |->
                        [results[i] EXCEPT !.findings = filter_findings(@, sev)]]
    /\ scanned' = results
    /\ pc' = "cli_exit"
    /\ UNCHANGED <<fs, top, target, rules, clock, caller, file_path, start_time,
                   content, findings, ri, duration_ms, read_paths, listing, di,
                   ret, exc, log, exit_code, chk>>

\* Lines 78-80: the CRITICAL findings of all results.
critical_count(rs) ==
    Cardinality({<<i, j>> \in (1..Len(rs)) \X (1..MaxFindings(rs)) :
                    /\ j <= Len(rs[i].findings)
                    /\ rs[i].findings[j].severity = "critical"})

\* Lines 60-82: the results are rendered and written (not modelled: rendering
\* changes no state), then the process ends with status 1 when a CRITICAL
\* finding is left and 0 otherwise.
CLI_Exit ==
    /\ pc = "cli_exit"
    /\ exit_code' = IF critical_count(results) > 0 THEN 1 ELSE 0
    /\ pc' = "done"
    /\ UNCHANGED <<fs, top, target, rules, clock, caller, file_path, start_time,
                   content, findings, ri, duration_ms, read_paths, listing, di,
                   results, ret, exc, log, severity, scanned, chk>>

Init ==
    /\ InitCommon
    /\ top = "cli"
    /\ fs \in SeqsUpTo(Entries, MaxFiles)
    /\ target \in -1..Len(fs)
    /\ rules = <<>>
    /\ chk = NoCheck

Next ==
    \/ CLI_Start
    \/ ScanDirBegin
    \/ ScanDirNext
    \/ ScanDirReturn
    \/ ScanFileBegin
    \/ ScanFileRead
    \/ ScanFileRule
    \/ ScanFileDuration
    \/ ScanFileReturn
    \/ Tick
    \/ CLI_Filter
    \/ CLI_Exit

\* One run of the command: agentguard scan <target> [--severity <s>].
Spec == Init /\ [][Next]_vars

\* ------------------------------------------------------- PatternRule.check
CheckPatterns ==
    { <<{"a"}>>, <<{"a"}, {"a"}>>, <<{"A"}, {"b"}>>, <<{"a"}, Whitespace, {"a"}>> }
CheckRules ==
    {MkRule("pattern", "AG-T", "secrets", "high", p, TRUE) : p \in CheckPatterns}

InitCheck ==
    /\ InitCommon
    /\ top = "check"
    /\ fs = <<>>
    /\ target = -1
    /\ rules = <<>>
    /\ chk \in [rule : CheckRules, content : SeqsUpTo(Chars, MaxLen), out : {<<>>}]

\* rule.check(content, file_path) is called once.
CheckCall ==
    /\ pc = "start"
    /\ top = "check"
    /\ chk' = [chk EXCEPT !.out = <<check(chk.rule, chk.content, 0)>>]
    /\ pc' = "done"
    /\ UNCHANGED <<fs, top, target, rules, clock, caller, file_path, start_time,
                   content, findings, ri, duration_ms, read_paths, listing, di,
                   results, ret, exc, log, severity, scanned, exit_code>>

NextCheck == CheckCall

\* One call of PatternRule.check on every content up to MaxLen characters.
SpecCheck == InitCheck /\ [][NextCheck]_vars

\* ===================================================== PatternRule.check
\* What C10 speaks of, stated on the content itself: the newline positions,
\* the extent of each line, and the occurrences of the pattern in a line.
NLPos(c) == {i \in 1..Len(c) : c[i] = NL}
LineCount(c) == Cardinality(NLPos(c)) + 1
\* The content index just before the first character of line k.
LineBase(c, k) ==
    IF k = 1 THEN 0
    ELSE CHOOSE i \in NLPos(c) : Cardinality({j \in NLPos(c) : j < i}) = k - 2
LineLen(c, k) ==
    (IF k = LineCount(c) THEN Len(c) ELSE LineBase(c, k + 1) - 1) - LineBase(c, k)
Occurs(c, pat, k, p) ==
    /\ p + Len(pat) <= LineLen(c, k)
    /\ \A m \in 1..Len(pat) : ClassMatches(pat[m], c[LineBase(c, k) + p + m])
Occurrences(c, pat, k) == {p \in 0..LineLen(c, k) : Occurs(c, pat, k, p)}
\* The leftmost non-overlapping occurrences: an occurrence is taken exactly
\* when no taken occurrence to its left overlaps it.
LeftmostNonOverlapping(c, pat, k) ==
    CHOOSE M \in SUBSET Occurrences(c, pat, k) :
        \A p \in Occurrences(c, pat, k) :
            (p \in M) <=> ~(\E q \in M : q < p /\ p < q + Len(pat))
ExpectedPlaces(c, pat) ==
    UNION {{<<k, q + 1>> : q \in LeftmostNonOverlapping(c, pat, k)} :
              k \in 1..LineCount(c)}

\* C10: the findings of check are, one for one, the leftmost non-overlapping
\* occurrences of the pattern in each line of the content split at newlines:
\* their number is the sum over the lines, each carries its line's 1-based
\* number and column = match start + 1, and the matched characters lie inside
\* one line (none is a newline).
C10_FindingsAreLineOccurrences ==
    (top = "check" /\ pc = "done") =>
        LET c == chk.content
            pat == chk.rule.pattern
            out == chk.out[1]
            places == {<<out.findings[i].line_number, out.findings[i].column>> :
                          i \in 1..Len(out.findings)}
            expected == ExpectedPlaces(c, pat)
        IN /\ ~out.raised
           /\ places = expected
           /\ Len(out.findings) = Cardinality(expected)
           /\ \A i \in 1..Len(out.findings) :
                LET f == out.findings[i] IN
                /\ f.line_number >= 1
                /\ f.column >= 1
                /\ \A m \in 1..Len(pat) :
                     /\ LineBase(c, f.line_number) + f.column - 1 + m <= Len(c)
                     /\ c[LineBase(c, f.line_number) + f.column - 1 + m] # NL

\* C10 witness: a content of several lines, one of which holds two occurrences,
\* and an occurrence that is skipped because it overlaps the one before it.
C10_Witness ==
    /\ top = "check" /\ pc = "done"
    /\ LineCount(chk.content) >= 2
    /\ \E i, j \in 1..Len(chk.out[1].findings) :
          /\ i # j
          /\ chk.out[1].findings[i].line_number = chk.out[1].findings[j].line_number
    /\ \E k \in 1..LineCount(chk.content) :
          Cardinality(Occurrences(chk.content, chk.rule.pattern, k))
            > Cardinality(LeftmostNonOverlapping(chk.content, chk.rule.pattern, k))

\* =============================================================== scan_file
Returned == top = "api" /\ pc = "done" /\ ret # <<>>

\* The place in the rule list of the rule a finding names.
RuleIndex(f) == CHOOSE k \in 1..Len(rules) : rules[k].rule_id = f.rule_id

\* f comes before g: earlier rule, or same rule and earlier line, or same rule
\* and line and smaller column.
Precedes(f, g) ==
    \/ RuleIndex(f) < RuleIndex(g)
    \/ /\ RuleIndex(f) = RuleIndex(g)
       /\ \/ f.line_number < g.line_number
          \/ f.line_number = g.line_number /\ f.column < g.column

\* C1: the findings of the ScanResult scan_file returns are ordered by rule
\* registration order, then by ascending line number within a rule, then by
\* ascending match start within a line.
C1_FindingsOrdered ==
    Returned =>
        \A i, j \in 1..Len(ret[1].findings) :
            i < j => Precedes(ret[1].findings[i], ret[1].findings[j])

\* C1 witness: a returned result with findings of two rules, of two lines of
\* one rule, and two of one rule in one line.
C1_Witness ==
    /\ Returned
    /\ LET F == ret[1].findings
           I == 1..Len(F)
       IN /\ \E i, j \in I : F[i].rule_id # F[j].rule_id
          /\ \E i, j \in I : /\ F[i].rule_id = F[j].rule_id
                             /\ F[i].line_number # F[j].line_number
          /\ \E i, j \in I : /\ i # j
                             /\ F[i].rule_id = F[j].rule_id
                             /\ F[i].line_number = F[j].line_number

\* What the rules that do not raise find in the file, in list order.
RECURSIVE FindingsOfSound(_, _, _, _)
FindingsOfSound(rs, text, path, k) ==
    IF k > Len(rs) THEN <<>>
    ELSE (IF check(rs[k], text, path).raised THEN <<>>
          ELSE check(rs[k], text, path).findings)
         \o FindingsOfSound(rs, text, path, k + 1)
Raising(rs, text, path) == {k \in 1..Len(rs) : check(rs[k], text, path).raised}

\* C2: when the file can be read, scan_file returns a ScanResult whatever the
\* rules do: a rule whose check raises contributes no finding, every other
\* rule, before and after it, contributes all of its findings, and each
\* raising rule is reported once, in list order.
C2_RaisingRuleIsolated ==
    (top = "api" /\ pc = "done" /\ read_error(target) = "none") =>
        /\ exc = "none"
        /\ ret # <<>>
        /\ ret[1].findings = FindingsOfSound(rules, fs[target].content, target, 1)
        /\ LET R == Raising(rules, fs[target].content, target) IN
           /\ Len(log) = Cardinality(R)
           /\ \A n \in 1..Len(log) :
                \E k \in R : /\ log[n].rule_id = rules[k].rule_id
                             /\ Cardinality({m \in R : m < k}) = n - 1

\* C2 witness: a returned result where a rule raised between two rules that
\* both contributed findings.
C2_Witness ==
    /\ Returned
    /\ \E i, j, k \in 1..Len(rules) :
          /\ i < j /\ j < k
          /\ check(rules[j], content, file_path).raised
          /\ \E n \in 1..Len(ret[1].findings) : ret[1].findings[n].rule_id = rules[i].rule_id
          /\ \E n \in 1..Len(ret[1].findings) : ret[1].findings[n].rule_id = rules[k].rule_id

\* C4: scan_file on a path that does not exist raises FileNotFoundError, and
\* no read is attempted, no rule is run and no ScanResult is produced.
C4_NotFoundBeforeAnything ==
    (top = "api" /\ ~OnDisk(target)) =>
        /\ read_paths = {}
        /\ ri = 0
        /\ log = <<>>
        /\ ret = <<>>
        /\ pc \in {"start", "sf_begin", "done"}
        /\ pc = "done" => exc = "FileNotFoundError"

\* C4 witness: the call on a missing path has ended with FileNotFoundError.
C4_Witness ==
    top = "api" /\ ~OnDisk(target) /\ pc = "done" /\ exc = "FileNotFoundError"

\* C5 as stated: nothing but the file-not-found condition leaves scan_file; a
\* file that exists and cannot be read or decoded is contained.
C5_OnlyNotFoundEscapes ==
    top = "api" =>
        /\ RegularFile(target) => exc = "none"
        /\ exc = "FileNotFoundError" => ~OnDisk(target)

\* C8 as stated: scanned_at of the returned ScanResult is the clock value
\* taken at the start of the scan.
C8_ScannedAtIsStart ==
    Returned => ret[1].scanned_at = start_time

\* ================================================ scan_directory and the CLI
DirScan == top = "cli" /\ OnDisk(target) /\ ~RegularFile(target)

\* The entries of the traversal that scan_file can scan, in traversal order.
Scannable(p) == RegularFile(p) /\ fs[p].suffix \in Eligible /\ fs[p].err = "none"
Failing(p) == RegularFile(p) /\ fs[p].suffix \in Eligible /\ fs[p].err # "none"
ScannablePaths == SelectSeq(rglob(target), Scannable)
FailingPaths == SelectSeq(rglob(target), Failing)

\* C3: no failure of a file leaves scan_directory, and what it returns is one
\* ScanResult for each eligible file that can be read, in traversal order,
\* none for a failed or ineligible entry, each with the findings of its own
\* file alone; every failed file is reported once.
C3_DirectoryScanIsolatesFiles ==
    DirScan =>
        /\ exc = "none"
        /\ pc = "cli_filter" =>
             /\ Len(results) = Len(ScannablePaths)
             /\ \A n \in 1..Len(results) :
                  /\ results[n].file_path = ScannablePaths[n]
                  /\ results[n].findings =
                       FindingsOfSound(rules, fs[ScannablePaths[n]].content,
                                       ScannablePaths[n], 1)
             /\ Len(log) = Len(FailingPaths)
             /\ \A n \in 1..Len(log) : log[n].path = FailingPaths[n]

\* C3 witness: a directory scan has returned a result for a file that follows,
\* in the traversal, an eligible file that failed.
C3_Witness ==
    /\ DirScan /\ pc = "cli_filter"
    /\ \E n \in 1..Len(results) : \E m \in 1..Len(log) :
          log[m].path < results[n].file_path

\* The order critical > high > medium > low > info as ranks.
SevRank(sev) ==
    CASE sev = "critical" -> 5 [] sev = "high" -> 4 [] sev = "medium" -> 3
      [] sev = "low" -> 2 [] OTHER -> 1
AtOrAbove(found, t) ==
    LET keep(f) == SevRank(f.severity) >= SevRank(t) IN SelectSeq(found, keep)
Filtered == top = "cli" /\ pc \in {"cli_exit", "done"} /\ exc = "none" /\ exit_code # 2

\* C6: after filtering with minimum severity T there are as many ScanResults,
\* in the same order, as the scan returned, and the findings of each are
\* exactly its findings at or above T, in their original order; without a
\* threshold nothing changes.
C6_FilterKeepsResults ==
    Filtered =>
        /\ Len(results) = Len(scanned)
        /\ \A n \in 1..Len(results) :
             /\ results[n].file_path = scanned[n].file_path
             /\ results[n].scanned_at = scanned[n].scanned_at
             /\ results[n].duration_ms = scanned[n].duration_ms
             /\ results[n].findings =
                  IF severity = "none" THEN scanned[n].findings
                  ELSE AtOrAbove(scanned[n].findings, severity)

\* C6 witness: after filtering, a result is left with no finding though the
\* scan found some in its file, and another result keeps a finding.
C6_Witness ==
    /\ Filtered
    /\ severity # "none"
    /\ \E n, m \in 1..Len(results) :
          /\ results[n].findings = <<>> /\ scanned[n].findings # <<>>
          /\ results[m].findings # <<>>
          /\ Len(results[m].findings) < Len(scanned[m].findings)

\* The CRITICAL findings among the results as the scan returned them.
ScannedCritical ==
    {<<n, k>> \in (1..Len(scanned)) \X (1..MaxFindings(scanned)) :
        k <= Len(scanned[n].findings) /\ scanned[n].findings[k].severity = "critical"}

\* C7 as stated: after a scan (the command was given a path that exists, so a
\* scan was started, and has ended), whatever the threshold, the exit status
\* is non-zero exactly when the results the scan produced hold a CRITICAL
\* finding.
C7_ExitStatusIffCritical ==
    (top = "cli" /\ pc = "done" /\ OnDisk(target)) =>
        ((exit_code # 0) <=> (ScannedCritical # {}))

\* What holds of the runs in which the scan returns to the command: there the
\* status is decided by the CRITICAL findings alone, under every threshold.
ExitStatusWhenScanReturns ==
    (Filtered /\ pc = "done") =>
        ((exit_code # 0) <=> (ScannedCritical # {}))

\* C9: every finding of every ScanResult, while the scan runs and after the
\* filter, has the rule id, severity and category of exactly one rule of the
\* list the scan ran with.
C9_FindingTraceableToOneRule ==
    \A n \in 1..Len(results) : \A k \in 1..Len(results[n].findings) :
        LET f == results[n].findings[k] IN
        Cardinality({r \in 1..Len(rules) :
                        /\ rules[r].rule_id = f.rule_id
                        /\ rules[r].severity = f.severity
                        /\ rules[r].category = f.category}) = 1

\* C9 witness: findings of rules of different severities are left after a
\* filter ran.
C9_Witness ==
    /\ Filtered /\ pc = "done" /\ severity # "none"
    /\ \E n \in 1..Len(results) : \E k, m \in 1..Len(results[n].findings) :
          results[n].findings[k].severity # results[n].findings[m].severity

====
